---------------------------- MODULE Spec2Model ----------------------------
(***************************************************************************)
(* State-machine model of the ARC-AGI-3 engine backend                     *)
(* (src/backend/backend.py, src/backend/game_data_loader.py): the scorecard*)
(* store, the session store, RESET and the six ACTION commands.            *)
(*                                                                         *)
(* A Frame's grid is the one-element list [grid]; the model keeps the grid, *)
(* a function from the row y in 0..63 to the row, a function from x in      *)
(* 0..63 to the colour.  Every response that carries a frame carries the    *)
(* session's current_frame (backend.py:295/324, 407/456/475, 591/596), so   *)
(* the response record does not repeat it.                                  *)
(*                                                                         *)
(* Identifiers (uuid4 strings in the code) are modelled as positive        *)
(* integers; a fresh identifier is the smallest one never issued.  The     *)
(* pass-through fields api_key, source_url, tags, opaque and created_at    *)
(* are written once and read by no rule; they are left out.                *)
(***************************************************************************)
EXTENDS Integers, Sequences, FiniteSets, TLC

VARIABLES
    scorecards_db,   \* card_id -> scorecard           (backend.py:90)
    sessions_db,     \* guid -> session                (backend.py:91)
    last             \* the last command and the response the caller received

vars == <<scorecards_db, sessions_db, last>>

---------------------------------------------------------------------------
(* Bounds of the model *)

MaxCards == 1
MaxSessions == 2
MaxCommands == 3
MaxFallbackActions == 255
MaxClickActions == 1
MaxReasoningActions == 2
MaxManyCards == 2
MaxManyCommands == 3

---------------------------------------------------------------------------
(* Program constants *)

N == 64
base_x == 4
base_y == 10
block_size == 12
\* the gap the comment above the block formula states
gap_of_comment == 5
gap == 4
WinScoreValue == 1
NoGuid == -1

Cells == 0..(N - 1)
NoFrame == <<>>
NoData == [none |-> TRUE]

---------------------------------------------------------------------------
(* Region geometry of the toggle rule *)

BlockAt(row, col) ==
    LET x1 == base_x + (col * (block_size + gap))
        y1 == base_y + (row * (block_size + gap))
    IN  [x1 |-> x1, y1 |-> y1, x2 |-> x1 + block_size - 1, y2 |-> y1 + block_size - 1]

\* block_index 1..9 in row-major order; the 5th (centre) block is skipped
blocks ==
    LET idx == <<1, 2, 3, 4, 6, 7, 8, 9>>
    IN  [k \in 1..8 |-> BlockAt((idx[k] - 1) \div 3, (idx[k] - 1) % 3)]

\* the last win block taken one block too far right
win_blocks_shifted ==
    << [x1 |-> 20, y1 |-> 10, x2 |-> 31, y2 |-> 21],
       [x1 |-> 4,  y1 |-> 26, x2 |-> 15, y2 |-> 37],
       [x1 |-> 36, y1 |-> 26, x2 |-> 47, y2 |-> 37],
       [x1 |-> 36, y1 |-> 42, x2 |-> 47, y2 |-> 53] >>

win_blocks ==
    << [x1 |-> 20, y1 |-> 10, x2 |-> 31, y2 |-> 21],
       [x1 |-> 4,  y1 |-> 26, x2 |-> 15, y2 |-> 37],
       [x1 |-> 36, y1 |-> 26, x2 |-> 47, y2 |-> 37],
       [x1 |-> 20, y1 |-> 42, x2 |-> 31, y2 |-> 53] >>

InBlock(block, x, y) ==
    block.x1 <= x /\ x <= block.x2 /\ block.y1 <= y /\ y <= block.y2

\* the first block of the list that holds the click, 0 when none does
ClickedBlock(x, y) ==
    IF \E k \in 1..8 : InBlock(blocks[k], x, y)
    THEN CHOOSE k \in 1..8 : InBlock(blocks[k], x, y)
                             /\ \A j \in 1..(k - 1) : ~InBlock(blocks[j], x, y)
    ELSE 0

\* other colours sent to 8 instead of 9
ToggleColorOtherToRed(c) == IF c = 9 THEN 8 ELSE IF c = 8 THEN 9 ELSE 8

ToggleColor(c) == IF c = 9 THEN 8 ELSE IF c = 8 THEN 9 ELSE 9

ToggleBlock(frame, block) ==
    [y \in DOMAIN frame |->
        IF block.y1 <= y /\ y <= block.y2
        THEN [x \in DOMAIN frame[y] |->
                 IF block.x1 <= x /\ x <= block.x2
                 THEN ToggleColor(frame[y][x])
                 ELSE frame[y][x]]
        ELSE frame[y]]

\* row-major list of the colours of a block
BlockColors(frame, block) ==
    [i \in 1..(block_size * block_size) |->
        frame[block.y1 + ((i - 1) \div block_size)][block.x1 + ((i - 1) % block_size)]]

WinConditionMet(frame) ==
    \A k \in DOMAIN win_blocks :
        \A y \in win_blocks[k].y1 .. win_blocks[k].y2 :
            \A x \in win_blocks[k].x1 .. win_blocks[k].x2 :
                (y \in DOMAIN frame /\ x \in DOMAIN frame[y]) => frame[y][x] = 8

---------------------------------------------------------------------------
(* Level Provider: the game_data/ directory as the loader reads it.        *)
(* Four games stand for the shapes of level data the loader distinguishes:  *)
(*   "puzzle"  initial.json and final.json, both with a 64x64 grid; the     *)
(*             final grid has exactly the four win blocks in colour 8, the  *)
(*             initial grid has three of them and one other block           *)
(*   "nodata"  a game directory without level_1/initial.json                *)
(*   "zero"    initial and final grids all of colour 0                      *)
(*   "short"   initial.json with a grid of two rows, of three cells and of  *)
(*             one cell, and no final.json                                  *)

\* a 64x64 grid, background 0, the active blocks in `red` coloured 8, the others 9
Pattern(red) ==
    [y \in Cells |-> [x \in Cells |->
        IF ClickedBlock(x, y) = 0 THEN 0
        ELSE IF ClickedBlock(x, y) \in red THEN 8 ELSE 9]]

ZeroGrid == [y \in Cells |-> [x \in Cells |-> 0]]

\* blocks[2], blocks[4], blocks[5], blocks[7] are the four win blocks
PuzzleInitialGrid == Pattern({1, 2, 4, 5})
PuzzleFinalGrid == Pattern({2, 4, 5, 7})

\* a stored grid smaller than 64x64, with rows of different lengths
ShortGrid ==
    [y \in 0..1 |-> IF y = 0 THEN [x \in 0..2 |-> IF x = 0 THEN 9 ELSE IF x = 1 THEN 8 ELSE 15]
                             ELSE [x \in 0..0 |-> 9]]

\* game_id -> the level files under game_data/<game_id>/level_1
game_data ==
    [puzzle |-> [initial |-> [grid |-> PuzzleInitialGrid],
                 final   |-> [grid |-> PuzzleFinalGrid]],
     nodata |-> NoData,
     zero   |-> [initial |-> [grid |-> ZeroGrid], final |-> [grid |-> ZeroGrid]],
     short  |-> [initial |-> [grid |-> ShortGrid], final |-> NoData]]

\* the directories under game_data/
game_dirs == DOMAIN game_data

available_games == game_dirs

load_level(game_id, level) ==
    IF game_id \in DOMAIN game_data /\ level = "level_1" THEN game_data[game_id] ELSE NoData

\* a stored row padded (or cut) to 64 cells
\* a row handed on with the width it is stored with
PadRowAsStored(row) == row

PadRow(row) == [x \in Cells |-> IF x \in DOMAIN row THEN row[x] ELSE 0]

\* the stored grid padded (or cut) to 64x64
PadGrid(grid) ==
    [y \in Cells |-> PadRow(IF y \in DOMAIN grid THEN grid[y] ELSE <<>>)]

get_frame_data(game_id, level, frame_type) ==
    LET level_data == load_level(game_id, level)
    IN  IF level_data = NoData THEN NoFrame
        ELSE IF level_data[frame_type] = NoData THEN NoFrame
        ELSE IF level_data[frame_type].grid = <<>> THEN NoFrame
        ELSE PadGrid(level_data[frame_type].grid)

get_game_state(game_id, level) ==
    IF load_level(game_id, level) = NoData
    THEN [state |-> "NOT_STARTED", score |-> 0]
    ELSE [state |-> "NOT_FINISHED", score |-> 0]

MockFrame == [y \in Cells |-> [x \in Cells |-> (x + y) % 16]]

\* the final grid whatever frame type is asked for
create_frame_always_final(game_id, level, frame_type) ==
    LET frame_data == get_frame_data(game_id, level, "final")
    IN  IF frame_data # NoFrame THEN frame_data ELSE MockFrame

create_frame_from_game_data(game_id, level, frame_type) ==
    LET frame_data == get_frame_data(game_id, level, frame_type)
    IN  IF frame_data # NoFrame THEN frame_data ELSE MockFrame

---------------------------------------------------------------------------
(* Responses *)

NoInput == [id |-> 0, data |-> NoData, toggled |-> FALSE, no_op |-> FALSE,
            win_achieved |-> FALSE, block_coords |-> NoData,
            old_colors |-> <<>>, new_colors |-> <<>>]

\* request: the body of an action command as it was received
NoCommand == [cmd |-> "", action_id |-> 0, game_id |-> "", card_id |-> 0,
              guid |-> NoGuid, data |-> NoData, request |-> NoData]

\* an HTTPException (400, 404) or an unhandled exception (500): no body but the detail
ErrorResponse(status, detail) ==
    [status |-> status, detail |-> detail, guid |-> NoGuid, card_id |-> 0,
     state |-> "", score |-> 0, action_input |-> NoInput, summary |-> NoData]

\* FrameResponse(score: int = Field(..., ge=0, le=254)): construction validates
FrameResponseValid(score) == 0 <= score /\ score <= 254

FrameResponse(guid, state, score, action_input) ==
    IF FrameResponseValid(score)
    THEN [status |-> 200, detail |-> "", guid |-> guid, card_id |-> 0,
          state |-> state, score |-> score, action_input |-> action_input,
          summary |-> NoData]
    ELSE ErrorResponse(500, "ValidationError: score")

\* an identifier generator that repeats itself
ReusedId(db) == 1

\* the first identifier a store has not issued yet (uuid.uuid4())
FreshId(db) == Cardinality(DOMAIN db) + 1

\* what a handler leaves behind: both stores and the response to the caller
Outcome(scorecards, sessions, command, response) ==
    [scorecards |-> scorecards, sessions |-> sessions,
     last |-> [command |-> command, response |-> response,
               mutated |-> scorecards # scorecards_db \/ sessions # sessions_db]]

\* an exception raised before any store was written
Rejected(command, status, detail) ==
    Outcome(scorecards_db, sessions_db, command, ErrorResponse(status, detail))

Commit(outcome) ==
    /\ scorecards_db' = outcome.scorecards
    /\ sessions_db' = outcome.sessions
    /\ last' = outcome.last

---------------------------------------------------------------------------
(* Initial state: both stores empty *)

Init ==
    /\ scorecards_db = <<>>
    /\ sessions_db = <<>>
    /\ last = [command |-> NoCommand, response |-> ErrorResponse(0, ""),
               mutated |-> FALSE]

---------------------------------------------------------------------------
(* POST /api/scorecard/open *)

open_scorecard ==
    LET card_id == FreshId(scorecards_db)
        scorecard == [card_id |-> card_id, won |-> 0, played |-> 0,
                      total_actions |-> 0, score |-> 0, cards |-> <<>>]
    IN  Outcome([c \in DOMAIN scorecards_db \cup {card_id} |->
                    IF c = card_id THEN scorecard ELSE scorecards_db[c]],
                sessions_db,
                [NoCommand EXCEPT !.cmd = "OPEN"],
                [ErrorResponse(200, "") EXCEPT !.card_id = card_id])

---------------------------------------------------------------------------
(* POST /api/cmd/RESET *)

ResetCommand(game_id, card_id, guid) ==
    [NoCommand EXCEPT !.cmd = "RESET", !.game_id = game_id,
                      !.card_id = card_id, !.guid = guid]

\* the check that rejects the command, "" when none does
ResetRejectionNoGuidCheck(game_id, card_id, guid) ==
    IF game_id \notin available_games THEN "Unknown game_id"
    ELSE IF card_id \notin DOMAIN scorecards_db THEN "Unknown card_id"
    ELSE ""

ResetRejectionNoCardCheck(game_id, card_id, guid) ==
    IF game_id \notin available_games THEN "Unknown game_id"
    ELSE IF guid # NoGuid /\ guid \notin DOMAIN sessions_db THEN "Unknown guid"
    ELSE ""

ResetRejection(game_id, card_id, guid) ==
    IF game_id \notin available_games THEN "Unknown game_id"
    ELSE IF card_id \notin DOMAIN scorecards_db THEN "Unknown card_id"
    ELSE IF guid # NoGuid /\ guid \notin DOMAIN sessions_db THEN "Unknown guid"
    ELSE ""

\* a game card created with a play already counted
NewGameCardWithPlay(game_id) ==
    [game_id |-> game_id, total_plays |-> 1, total_actions |-> 0,
     scores |-> <<>>, states |-> <<>>, actions |-> <<>>]

NewGameCard(game_id) ==
    [game_id |-> game_id, total_plays |-> 0, total_actions |-> 0,
     scores |-> <<>>, states |-> <<>>, actions |-> <<>>]

\* a reset that appends to the three lists without counting the play
ScorecardAfterResetUncounted(scorecard, game_id, game_state) ==
    LET old == IF game_id \in DOMAIN scorecard.cards
               THEN scorecard.cards[game_id] ELSE NewGameCard(game_id)
        game_card == [old EXCEPT !.scores = Append(@, game_state.score),
                                 !.states = Append(@, game_state.state),
                                 !.actions = Append(@, 0)]
    IN  [scorecard EXCEPT
            !.cards = [g \in DOMAIN scorecard.cards \cup {game_id} |->
                          IF g = game_id THEN game_card ELSE scorecard.cards[g]],
            !.played = @ + 1]

\* the scorecard after one more play of game_id
ScorecardAfterReset(scorecard, game_id, game_state) ==
    LET old == IF game_id \in DOMAIN scorecard.cards
               THEN scorecard.cards[game_id] ELSE NewGameCard(game_id)
        game_card == [old EXCEPT !.total_plays = @ + 1,
                                 !.scores = Append(@, game_state.score),
                                 !.states = Append(@, game_state.state),
                                 !.actions = Append(@, 0)]
    IN  [scorecard EXCEPT
            !.cards = [g \in DOMAIN scorecard.cards \cup {game_id} |->
                          IF g = game_id THEN game_card ELSE scorecard.cards[g]],
            !.played = @ + 1]

reset_game(game_id, card_id, guid_in) ==
    LET command == ResetCommand(game_id, card_id, guid_in)
        rejection == ResetRejection(game_id, card_id, guid_in)
        guid == IF guid_in = NoGuid THEN FreshId(sessions_db) ELSE guid_in
        game_state == get_game_state(game_id, "level_1")
        session == [game_id |-> game_id, card_id |-> card_id,
                    state |-> game_state.state, score |-> game_state.score,
                    level |-> "level_1", actions_taken |-> 0,
                    current_frame |->
                        create_frame_from_game_data(game_id, "level_1", "initial")]
    IN  IF rejection # ""
        THEN Rejected(command, 400, rejection)
        ELSE Outcome([scorecards_db EXCEPT ![card_id] =
                         ScorecardAfterReset(@, game_id, game_state)],
                     [k \in DOMAIN sessions_db \cup {guid} |->
                         IF k = guid THEN session ELSE sessions_db[k]],
                     command,
                     FrameResponse(guid, game_state.state, game_state.score,
                                   [NoInput EXCEPT !.id = 0]))

---------------------------------------------------------------------------
(* execute_action: POST /api/cmd/ACTION1 .. ACTION6 *)

ActionCommand(game_id, guid, action_id, action_data) ==
    [NoCommand EXCEPT !.cmd = "ACTION", !.game_id = game_id, !.guid = guid,
                      !.action_id = action_id, !.data = action_data]

\* the check that rejects the command, "" when none does
ActionRejection(game_id, guid) ==
    IF guid \notin DOMAIN sessions_db THEN "Unknown guid"
    ELSE IF sessions_db[guid].game_id # game_id THEN "Guid does not belong to game_id"
    ELSE ""

\* len(current_frame[0]) > y and len(current_frame[0][y]) > x
HasCell(frame, x, y) ==
    /\ Cardinality(DOMAIN frame) > y
    /\ Cardinality(DOMAIN frame[y]) > x

\* the condition under which the click branch is entered
IsClick(session, action_id, action_data) ==
    /\ action_id = 6
    /\ action_data # NoData
    /\ "x" \in DOMAIN action_data
    /\ "y" \in DOMAIN action_data
    /\ HasCell(session.current_frame, action_data.x, action_data.y)

\* game_card[...][-1] = v
SetLast(seq, v) == [seq EXCEPT ![Len(seq)] = v]

\* the scorecard bookkeeping every executed action does
\* an action counted on the GameCard only
CountActionOnGameCardOnly(scorecard, game_id) ==
    [scorecard EXCEPT
        !.cards[game_id].total_actions = @ + 1,
        !.cards[game_id].actions = SetLast(@, @[Len(@)] + 1)]

CountAction(scorecard, game_id) ==
    [scorecard EXCEPT
        !.cards[game_id].total_actions = @ + 1,
        !.cards[game_id].actions = SetLast(@, @[Len(@)] + 1),
        !.total_actions = @ + 1]

\* a win that is recorded in the game card only
CountWinWithoutCounter(scorecard, game_id) ==
    [scorecard EXCEPT
        !.cards[game_id].states = SetLast(@, "WIN"),
        !.score = 1]

\* the scorecard bookkeeping of a win
CountWin(scorecard, game_id) ==
    [scorecard EXCEPT
        !.cards[game_id].states = SetLast(@, "WIN"),
        !.won = @ + 1,
        !.score = 1]

\* the click landed in blocks[k]: toggle it, then test the four win blocks.
\* (toggled is set by the first cell of the block, and every block lies inside
\* the 64x64 frame, so the handler always returns from inside the loop.)
ToggleRule(game_id, guid, action_id, action_data, k) ==
    LET session == sessions_db[guid]
        block == blocks[k]
        current_frame == ToggleBlock(session.current_frame, block)
        win == WinConditionMet(current_frame)
        counted == CountAction(scorecards_db[session.card_id], game_id)
        scorecard ==
            IF win
            THEN CountWin([counted EXCEPT
                              !.cards[game_id].scores = SetLast(@, WinScoreValue)],
                          game_id)
            ELSE counted
        new_session ==
            [session EXCEPT !.current_frame = current_frame,
                            !.actions_taken = @ + 1,
                            !.state = IF win THEN "WIN" ELSE @,
                            !.score = IF win THEN WinScoreValue ELSE @]
        action_input ==
            [NoInput EXCEPT !.id = action_id, !.data = action_data,
                            !.toggled = TRUE, !.block_coords = block,
                            !.old_colors = BlockColors(session.current_frame, block),
                            !.new_colors = BlockColors(current_frame, block),
                            !.win_achieved = win]
    IN  Outcome([scorecards_db EXCEPT ![session.card_id] = scorecard],
                [sessions_db EXCEPT ![guid] = new_session],
                ActionCommand(game_id, guid, action_id, action_data),
                FrameResponse(guid, new_session.state, new_session.score, action_input))

\* the click landed outside all blocks: the response reads session["win_score"],
\* a key no session has
NoOpRule(game_id, guid, action_id, action_data) ==
    Rejected(ActionCommand(game_id, guid, action_id, action_data),
             500, "KeyError: win_score")

\* final_frame[y][x] if y < len(final_frame) and x < len(final_frame[y]) else 0
FinalRow(final_frame, y) == IF y \in DOMAIN final_frame THEN final_frame[y] ELSE <<>>

FinalColor(final_row, x) == IF x \in DOMAIN final_row THEN final_row[x] ELSE 0

\* the x in range(64) for which the current frame holds a cell (y, x)
RowCells(current_frame, y) ==
    IF y \in DOMAIN current_frame THEN Cells \cap DOMAIN current_frame[y] ELSE {}

RowCorrect(current_frame, final_frame, y) ==
    LET final_row == FinalRow(final_frame, y)
    IN  Cardinality({x \in RowCells(current_frame, y) :
                        current_frame[y][x] = FinalColor(final_row, x)})

RECURSIVE TotalCellsUpTo(_, _)
TotalCellsUpTo(current_frame, n) ==
    IF n = 0 THEN 0
    ELSE TotalCellsUpTo(current_frame, n - 1)
         + Cardinality(RowCells(current_frame, n - 1))

RECURSIVE CorrectCellsUpTo(_, _, _)
CorrectCellsUpTo(current_frame, final_frame, n) ==
    IF n = 0 THEN 0
    ELSE CorrectCellsUpTo(current_frame, final_frame, n - 1)
         + RowCorrect(current_frame, final_frame, n - 1)

TotalCells(current_frame) == TotalCellsUpTo(current_frame, N)

CorrectCells(current_frame, final_frame) ==
    CorrectCellsUpTo(current_frame, final_frame, N)

\* int(correct_cells / total_cells * 100): the quotient by a power of two and
\* its product with 100 are exact in binary floating point
ProgressScoreRounded(correct_cells, total_cells) ==
    (correct_cells * 200 + total_cells) \div (2 * total_cells)

ProgressScore(correct_cells, total_cells) == (correct_cells * 100) \div total_cells

MatchesFinal(current_frame, final_frame) ==
    \A y \in Cells :
        LET final_row == FinalRow(final_frame, y)
        IN  \A x \in RowCells(current_frame, y) :
                current_frame[y][x] = FinalColor(final_row, x)

\* a placeholder score that grows by two
GenericScoreByTwo(session, final_data) == session.score + 2

\* the score of the generic rule, before the win check
GenericScore(session, final_data) ==
    IF final_data # NoFrame
    THEN LET total_cells == TotalCells(session.current_frame)
         IN  IF total_cells > 0
             THEN ProgressScore(CorrectCells(session.current_frame, final_data),
                                total_cells)
             ELSE session.score + 1
    ELSE session.score + 1

GenericRule(game_id, guid, action_id, action_data) ==
    LET session == sessions_db[guid]
        level == session.level
        final_data == get_frame_data(game_id, level, "final")
        score == GenericScore(session, final_data)
        win == final_data # NoFrame /\ MatchesFinal(session.current_frame, final_data)
        counted == [CountAction(scorecards_db[session.card_id], game_id) EXCEPT
                       !.cards[game_id].scores = SetLast(@, score)]
        scorecard ==
            IF win THEN CountWin(counted, game_id)
            ELSE [counted EXCEPT
                     !.cards[game_id].states = SetLast(@, "NOT_FINISHED")]
        state == IF win THEN "WIN" ELSE "NOT_FINISHED"
        frame_data == create_frame_from_game_data(
                          game_id, level, IF state = "WIN" THEN "final" ELSE "initial")
        new_session ==
            [session EXCEPT !.actions_taken = @ + 1,
                            !.score = IF win THEN WinScoreValue ELSE score,
                            !.state = state,
                            !.current_frame = frame_data]
    IN  Outcome([scorecards_db EXCEPT ![session.card_id] = scorecard],
                [sessions_db EXCEPT ![guid] = new_session],
                ActionCommand(game_id, guid, action_id, action_data),
                FrameResponse(guid, new_session.state, new_session.score,
                              [NoInput EXCEPT !.id = action_id, !.data = action_data]))

execute_action(game_id, guid, action_id, action_data) ==
    IF ActionRejection(game_id, guid) # ""
    THEN Rejected(ActionCommand(game_id, guid, action_id, action_data),
                  400, ActionRejection(game_id, guid))
    ELSE IF IsClick(sessions_db[guid], action_id, action_data)
    THEN LET k == ClickedBlock(action_data.x, action_data.y)
         IN  IF k # 0
             THEN ToggleRule(game_id, guid, action_id, action_data, k)
             ELSE NoOpRule(game_id, guid, action_id, action_data)
    ELSE GenericRule(game_id, guid, action_id, action_data)

\* the outcome of a handler, with the command body it was called for
WithRequest(outcome, request) == [outcome EXCEPT !.last.command.request = request]

\* ACTION1 .. ACTION5: the reasoning payload is the action data
simple_action(action_id, game_id, guid, reasoning) ==
    WithRequest(execute_action(game_id, guid, action_id, reasoning),
                [reasoning |-> reasoning])

\* action_data = {"x": command.x, "y": command.y}
ClickData(x, y) == [x |-> x, y |-> y]

\* action_data.update(command.reasoning): the keys of the payload replace
\* those of the same name
UpdatedData(action_data, reasoning) ==
    [key \in DOMAIN action_data \cup DOMAIN reasoning |->
        IF key \in DOMAIN reasoning THEN reasoning[key] ELSE action_data[key]]

\* ACTION6: x and y, then the keys of the reasoning payload over them
action6(game_id, guid, x, y, reasoning) ==
    WithRequest(execute_action(game_id, guid, 6,
                    IF reasoning = NoData
                    THEN ClickData(x, y)
                    ELSE UpdatedData(ClickData(x, y), reasoning)),
                [x |-> x, y |-> y, reasoning |-> reasoning])

---------------------------------------------------------------------------
(* Reading a scorecard: POST /api/scorecard/close, GET /api/scorecard/{id}, *)
(* GET /api/scorecard/{id}/{game_id}                                       *)

ReadCommand(cmd, card_id, game_id) ==
    [NoCommand EXCEPT !.cmd = cmd, !.card_id = card_id, !.game_id = game_id]

ScorecardSummary(card_id, won, played, total_actions, score, cards) ==
    [card_id |-> card_id, won |-> won, played |-> played,
     total_actions |-> total_actions, score |-> score, cards |-> cards]

\* score = 1 if won > 0 else 0
SummaryScoreAlwaysZero(won) == 0

SummaryScore(won) == IF won > 0 THEN 1 ELSE 0

\* both handlers build the same summary of the stored scorecard
SummaryOfCard(cmd, card_id) ==
    IF card_id \notin DOMAIN scorecards_db
    THEN Rejected(ReadCommand(cmd, card_id, ""), 404, "Scorecard not found")
    ELSE LET scorecard == scorecards_db[card_id]
         IN  Outcome(scorecards_db, sessions_db, ReadCommand(cmd, card_id, ""),
                     [ErrorResponse(200, "") EXCEPT
                         !.card_id = card_id,
                         !.summary = ScorecardSummary(
                             scorecard.card_id, scorecard.won, scorecard.played,
                             scorecard.total_actions, SummaryScore(scorecard.won),
                             scorecard.cards)])

close_scorecard(card_id) == SummaryOfCard("CLOSE", card_id)

get_scorecard(card_id) == SummaryOfCard("GET", card_id)

\* every play counted as a win
WinEntriesCountsPlays(states) == Len(states)

\* sum(1 for state in game_card["states"] if state == "WIN")
RECURSIVE WinEntries(_)
WinEntries(states) ==
    IF states = <<>> THEN 0
    ELSE (IF Head(states) = "WIN" THEN 1 ELSE 0) + WinEntries(Tail(states))

get_scorecard_for_game(card_id, game_id) ==
    LET command == ReadCommand("GETGAME", card_id, game_id)
    IN  IF card_id \notin DOMAIN scorecards_db
        THEN Rejected(command, 404, "Scorecard not found")
        ELSE IF game_id \notin DOMAIN scorecards_db[card_id].cards
        THEN Rejected(command, 404, "Game not found in scorecard")
        ELSE LET scorecard == scorecards_db[card_id]
                 game_card == scorecard.cards[game_id]
                 won == WinEntries(game_card.states)
             IN  Outcome(scorecards_db, sessions_db, command,
                         [ErrorResponse(200, "") EXCEPT
                             !.card_id = card_id,
                             !.summary = ScorecardSummary(
                                 scorecard.card_id, won, game_card.total_plays,
                                 game_card.total_actions, SummaryScore(won),
                                 [g \in {game_id} |-> game_card])])

---------------------------------------------------------------------------
(* Inputs and the next-state relations *)

GameInputs == game_dirs \cup {"unknown"}
\* identifier 0 is never issued
CardInputs == 0..MaxCards
GuidInputs == 0..MaxSessions
SimpleActionIds == 1..5
SampleActionIds == {1, 5}
\* clicks at a corner of the first block and of the last win block, in the
\* excluded centre, in a gap and in a margin
ClickPoints == { <<4, 10>>, <<31, 53>>, <<25, 30>>, <<17, 12>>, <<0, 0>> }
Reasonings == {NoData}

\* A command that wrote neither store leaves the program where it was: the
\* model does not continue from it (what follows it follows its predecessor).
Live == last.command.cmd = "" \/ last.mutated

\* the commands counted on a card stay within the bound
CardWithin(card_id, maxCommands) ==
    card_id \in DOMAIN scorecards_db =>
        scorecards_db[card_id].played + scorecards_db[card_id].total_actions
            < maxCommands

ResetWithin(card_id, guid, maxCommands) ==
    /\ Live
    /\ guid = NoGuid => Cardinality(DOMAIN sessions_db) < MaxSessions
    /\ CardWithin(card_id, maxCommands)

ActionWithin(guid, maxCommands) ==
    /\ Live
    /\ guid \in DOMAIN sessions_db =>
           CardWithin(sessions_db[guid].card_id, maxCommands)

Open ==
    /\ Live
    /\ Cardinality(DOMAIN scorecards_db) < MaxCards
    /\ \E outcome \in {open_scorecard} : Commit(outcome)

Reset ==
    \E game_id \in GameInputs, card_id \in CardInputs, guid \in GuidInputs \cup {NoGuid} :
        /\ ResetWithin(card_id, guid, MaxCommands)
        /\ \E outcome \in {reset_game(game_id, card_id, guid)} : Commit(outcome)

SimpleAction ==
    \E action_id \in SampleActionIds, game_id \in GameInputs, guid \in GuidInputs,
       reasoning \in Reasonings :
        /\ ActionWithin(guid, MaxCommands)
        /\ \E outcome \in {simple_action(action_id, game_id, guid, reasoning)} :
               Commit(outcome)

Action6 ==
    \E game_id \in GameInputs, guid \in GuidInputs, p \in ClickPoints,
       reasoning \in Reasonings :
        /\ ActionWithin(guid, MaxCommands)
        /\ \E outcome \in {action6(game_id, guid, p[1], p[2], reasoning)} :
               Commit(outcome)

Next == Open \/ Reset \/ SimpleAction \/ Action6

Spec == Init /\ [][Next]_vars

---------------------------------------------------------------------------
(* The fallback-scoring runs: one card, one play of a game whose level has *)
(* no final grid, generic actions only.                                    *)

NoFinalGames ==
    {game_id \in game_dirs : get_frame_data(game_id, "level_1", "final") = NoFrame}

FallbackReset ==
    \E game_id \in NoFinalGames, card_id \in 1..MaxCards :
        /\ Live
        /\ card_id \in DOMAIN scorecards_db
        /\ scorecards_db[card_id].played < 1
        /\ \E outcome \in {reset_game(game_id, card_id, NoGuid)} : Commit(outcome)

FallbackAction ==
    \E action_id \in SimpleActionIds, guid \in 1..MaxSessions :
        /\ Live
        /\ guid \in DOMAIN sessions_db
        /\ scorecards_db[sessions_db[guid].card_id].total_actions < MaxFallbackActions
        /\ \E outcome \in {simple_action(action_id, sessions_db[guid].game_id,
                                          guid, NoData)} :
               Commit(outcome)

NextFallback == Open \/ FallbackReset \/ FallbackAction

SpecFallback == Init /\ [][NextFallback]_vars

---------------------------------------------------------------------------
(* The click runs: one play of each game, then one ACTION6 at any cell.    *)

ClickReset ==
    \E game_id \in game_dirs, card_id \in 1..MaxCards :
        /\ Live
        /\ card_id \in DOMAIN scorecards_db
        /\ scorecards_db[card_id].played < 1
        /\ \E outcome \in {reset_game(game_id, card_id, NoGuid)} : Commit(outcome)

ClickAction ==
    \E guid \in 1..MaxSessions :
        /\ Live
        /\ guid \in DOMAIN sessions_db
        /\ scorecards_db[sessions_db[guid].card_id].total_actions < MaxClickActions
        /\ \E x \in Cells, y \in Cells :
               \E outcome \in {action6(sessions_db[guid].game_id, guid, x, y, NoData)} :
                   Commit(outcome)

NextClick == Open \/ ClickReset \/ ClickAction

SpecClick == Init /\ [][NextClick]_vars

---------------------------------------------------------------------------
(* The runs with the read commands: every command of Spec, and the three   *)
(* reads of a scorecard in every state.                                    *)

Close ==
    \E card_id \in CardInputs :
        /\ Live
        /\ \E outcome \in {close_scorecard(card_id)} : Commit(outcome)

Get ==
    \E card_id \in CardInputs :
        /\ Live
        /\ \E outcome \in {get_scorecard(card_id)} : Commit(outcome)

GetForGame ==
    \E card_id \in CardInputs, game_id \in GameInputs :
        /\ Live
        /\ \E outcome \in {get_scorecard_for_game(card_id, game_id)} : Commit(outcome)

NextRead == Next \/ Close \/ Get \/ GetForGame

SpecRead == Init /\ [][NextRead]_vars

---------------------------------------------------------------------------
(* The runs with reasoning payloads: one play of each game, then actions   *)
(* that carry a payload: none, one with a key of its own, one with keys x  *)
(* and y that name a cell of the last block, one with an x beyond the grid. *)

ReasoningInputs ==
    { NoData, [note |-> 1], [x |-> 36, y |-> 42], [x |-> 64] }

ReasoningSimpleAction ==
    \E action_id \in SampleActionIds, guid \in 1..MaxSessions,
       reasoning \in ReasoningInputs :
        /\ Live
        /\ guid \in DOMAIN sessions_db
        /\ scorecards_db[sessions_db[guid].card_id].total_actions < MaxReasoningActions
        /\ \E outcome \in {simple_action(action_id, sessions_db[guid].game_id,
                                          guid, reasoning)} :
               Commit(outcome)

ReasoningAction6 ==
    \E guid \in 1..MaxSessions, p \in ClickPoints, reasoning \in ReasoningInputs :
        /\ Live
        /\ guid \in DOMAIN sessions_db
        /\ scorecards_db[sessions_db[guid].card_id].total_actions < MaxReasoningActions
        /\ \E outcome \in {action6(sessions_db[guid].game_id, guid,
                                    p[1], p[2], reasoning)} :
               Commit(outcome)

NextReasoning == Open \/ ClickReset \/ ReasoningSimpleAction \/ ReasoningAction6

SpecReasoning == Init /\ [][NextReasoning]_vars

---------------------------------------------------------------------------
(* The runs with several scorecards: resets of every game under any card,  *)
(* with and without a guid, then ACTION1 or a click on the last win block  *)
(* or outside the blocks.                                                  *)

\* the plays and actions counted on the cards 1 .. n
RECURSIVE CommandsUpTo(_)
CommandsUpTo(n) ==
    IF n = 0 THEN 0
    ELSE CommandsUpTo(n - 1)
         + scorecards_db[n].played + scorecards_db[n].total_actions

ManyWithin ==
    /\ Live
    /\ CommandsUpTo(Cardinality(DOMAIN scorecards_db)) < MaxManyCommands

ManyOpen ==
    /\ Live
    /\ Cardinality(DOMAIN scorecards_db) < MaxManyCards
    /\ \E outcome \in {open_scorecard} : Commit(outcome)

ManyReset ==
    \E game_id \in game_dirs, card_id \in 0..MaxManyCards,
       guid \in (1..MaxSessions) \cup {NoGuid} :
        /\ ManyWithin
        /\ guid = NoGuid => Cardinality(DOMAIN sessions_db) < MaxSessions
        /\ \E outcome \in {reset_game(game_id, card_id, guid)} : Commit(outcome)

ManySimpleAction ==
    \E guid \in 1..MaxSessions :
        /\ ManyWithin
        /\ guid \in DOMAIN sessions_db
        /\ \E outcome \in {simple_action(1, sessions_db[guid].game_id, guid, NoData)} :
               Commit(outcome)

ManyAction6 ==
    \E guid \in 1..MaxSessions, p \in {<<31, 53>>, <<0, 0>>} :
        /\ ManyWithin
        /\ guid \in DOMAIN sessions_db
        /\ \E outcome \in {action6(sessions_db[guid].game_id, guid, p[1], p[2], NoData)} :
               Commit(outcome)

NextMany == ManyOpen \/ ManyReset \/ ManySimpleAction \/ ManyAction6

SpecMany == Init /\ [][NextMany]_vars

---------------------------------------------------------------------------
(* Vocabulary of the properties.  A step is described by the command and   *)
(* response it leaves in last'; the stores before it are the unprimed ones. *)

StoresUnchanged == sessions_db' = sessions_db /\ scorecards_db' = scorecards_db

\* the step is an action command that passes both validation checks
AcceptedAction ==
    /\ last'.command.cmd = "ACTION"
    /\ last'.command.guid \in DOMAIN sessions_db
    /\ sessions_db[last'.command.guid].game_id = last'.command.game_id

\* the step is an accepted ACTION1 .. ACTION5
GenericAction == AcceptedAction /\ last'.command.action_id \in 1..5

\* a stored level grid as the 64x64 grid of a frame: the cells it lacks are 0
SpecLevelGrid(grid) ==
    [y \in Cells |-> [x \in Cells |->
        IF y \in DOMAIN grid /\ x \in DOMAIN grid[y] THEN grid[y][x] ELSE 0]]

\* the 8 active regions as the specification gives them: a 3x3 layout of 12x12
\* regions, gap 4, origin (4,10), centre excluded
SpecRegions ==
    { [x1 |-> 4 + 16 * c, y1 |-> 10 + 16 * r, x2 |-> 15 + 16 * c, y2 |-> 21 + 16 * r] :
          c \in 0..2, r \in 0..2 }
    \ { [x1 |-> 20, y1 |-> 26, x2 |-> 31, y2 |-> 37] }

InRegion(R, x, y) == R.x1 <= x /\ x <= R.x2 /\ R.y1 <= y /\ y <= R.y2

\* the step is an accepted ACTION6 whose click falls inside region R
ToggleOf(R) ==
    /\ AcceptedAction
    /\ last'.command.action_id = 6
    /\ InRegion(R, last'.command.data.x, last'.command.data.y)

\* the step is an accepted ACTION6 whose click falls outside all 8 regions
OutsideClick ==
    /\ AcceptedAction
    /\ last'.command.action_id = 6
    /\ \A R \in SpecRegions : ~InRegion(R, last'.command.data.x, last'.command.data.y)

---------------------------------------------------------------------------
(* C1: a command rejected by validation (an action with an unknown guid or *)
(* with a game_id that is not the session's; a reset with an unknown       *)
(* game_id, an unknown card_id or a supplied but unknown guid) returns an  *)
(* error and leaves every session and every scorecard as it was.           *)

C1_FailsValidation ==
    \/ /\ last'.command.cmd = "ACTION"
       /\ \/ last'.command.guid \notin DOMAIN sessions_db
          \/ sessions_db[last'.command.guid].game_id # last'.command.game_id
    \/ /\ last'.command.cmd = "RESET"
       /\ \/ last'.command.game_id \notin available_games
          \/ last'.command.card_id \notin DOMAIN scorecards_db
          \/ /\ last'.command.guid # NoGuid
             /\ last'.command.guid \notin DOMAIN sessions_db

C1_RejectedHasNoEffect ==
    [][C1_FailsValidation =>
           /\ last'.response.status = 400
           /\ last'.response.detail \in
                  {"Unknown guid", "Guid does not belong to game_id",
                   "Unknown game_id", "Unknown card_id"}
           /\ StoresUnchanged]_vars

\* a reset naming a guid the store does not hold was rejected while a session
\* and a played scorecard existed
C1_Witness ==
    /\ last.command.cmd = "RESET"
    /\ last.command.guid # NoGuid
    /\ last.command.guid \notin DOMAIN sessions_db
    /\ last.command.card_id \in DOMAIN scorecards_db
    /\ last.response.status = 400
    /\ last.response.detail = "Unknown guid"
    /\ sessions_db # <<>>
    /\ \E c \in DOMAIN scorecards_db : scorecards_db[c].played > 0

---------------------------------------------------------------------------
(* C2: every command is all-or-nothing: a command that ends in an error    *)
(* (no Frame returned) leaves every session and every scorecard unchanged. *)

C2_AllOrNothing ==
    [][(last'.command.cmd \in {"RESET", "ACTION"} /\ last'.response.status # 200)
           => StoresUnchanged]_vars

---------------------------------------------------------------------------
(* C3: in every reachable state every session has a score in 0..254 and a  *)
(* state among NOT_STARTED, NOT_FINISHED, WIN, GAME_OVER.                  *)

C3_ScoreAndStateInRange ==
    \A g \in DOMAIN sessions_db :
        /\ sessions_db[g].score \in 0..254
        /\ sessions_db[g].state \in {"NOT_STARTED", "NOT_FINISHED", "WIN", "GAME_OVER"}

---------------------------------------------------------------------------
(* C4: WIN is terminal: once a session is in state WIN, every accepted     *)
(* action against its guid leaves it in WIN and observes WIN.              *)

C4_WinIsTerminal ==
    [][(AcceptedAction /\ sessions_db[last'.command.guid].state = "WIN")
           => /\ sessions_db'[last'.command.guid].state = "WIN"
              /\ last'.response.status = 200 => last'.response.state = "WIN"]_vars

---------------------------------------------------------------------------
(* C5: after a region toggle the win predicate is tested on the toggled    *)
(* grid: if the four win regions (top-middle, middle-left, middle-right,   *)
(* bottom-middle) are entirely colour 8, the session becomes WIN with the  *)
(* win score, Scorecard.won grows by 1, Scorecard.score is 1 and the game  *)
(* card's last state entry is WIN; otherwise the state is NOT_FINISHED     *)
(* (amended: is unchanged) and the score is unchanged.                     *)

SpecWinRegions ==
    { [x1 |-> 20, y1 |-> 10, x2 |-> 31, y2 |-> 21],
      [x1 |-> 4,  y1 |-> 26, x2 |-> 15, y2 |-> 37],
      [x1 |-> 36, y1 |-> 26, x2 |-> 47, y2 |-> 37],
      [x1 |-> 20, y1 |-> 42, x2 |-> 31, y2 |-> 53] }

SpecWin(frame) ==
    \A R \in SpecWinRegions : \A y \in R.y1..R.y2 : \A x \in R.x1..R.x2 :
        frame[y][x] = 8

\* what a winning toggle must leave behind
C5_WinRecorded ==
    LET g == last'.command.guid
        s == sessions_db[g]
    IN  /\ sessions_db'[g].state = "WIN"
        /\ sessions_db'[g].score = 1
        /\ scorecards_db'[s.card_id].won = scorecards_db[s.card_id].won + 1
        /\ scorecards_db'[s.card_id].score = 1
        /\ LET states == scorecards_db'[s.card_id].cards[s.game_id].states
           IN  states[Len(states)] = "WIN"

\* the claim as stated, asked only of sessions that a reset left in
\* NOT_FINISHED or that an action has since moved
C5_ToggleThenWinTest_Original ==
    [][\A R \in SpecRegions :
           (ToggleOf(R) /\ sessions_db[last'.command.guid].state # "NOT_STARTED") =>
               LET g == last'.command.guid
               IN  IF SpecWin(sessions_db'[g].current_frame)
                   THEN C5_WinRecorded
                   ELSE /\ sessions_db'[g].state = "NOT_FINISHED"
                        /\ sessions_db'[g].score = sessions_db[g].score]_vars

\* the claim as amended: a toggle that does not win leaves the state as it was
C5_ToggleThenWinTest ==
    [][\A R \in SpecRegions :
           ToggleOf(R) =>
               LET g == last'.command.guid
               IN  /\ SpecWin(sessions_db'[g].current_frame)
                          = last'.response.action_input.win_achieved
                   /\ IF SpecWin(sessions_db'[g].current_frame)
                      THEN C5_WinRecorded
                      ELSE /\ sessions_db'[g].state = sessions_db[g].state
                           /\ sessions_db'[g].score = sessions_db[g].score]_vars

\* a session's first action, a toggle, has just completed the four win
\* regions and the win is recorded on the scorecard
C5_Witness ==
    /\ last.command.cmd = "ACTION"
    /\ last.command.action_id = 6
    /\ last.response.status = 200
    /\ last.response.action_input.toggled
    /\ last.response.action_input.win_achieved
    /\ last.response.state = "WIN"
    /\ sessions_db[last.command.guid].state = "WIN"
    /\ sessions_db[last.command.guid].actions_taken = 1
    /\ scorecards_db[sessions_db[last.command.guid].card_id].won = 1

---------------------------------------------------------------------------
(* C6: an ACTION6 whose click falls inside an active region rewrites every *)
(* cell of exactly that region by 9->8, 8->9, other->9 and leaves every    *)
(* other cell of the grid unchanged.                                       *)

SpecToggle(c) == CASE c = 9 -> 8 [] c = 8 -> 9 [] OTHER -> 9

---------------------------------------------------------------------------
(* C7: toggling the same region twice in succession returns every cell of  *)
(* the region that held 8 or 9 to its colour before the first toggle, ends *)
(* every other cell of the region at 8, and leaves the cells outside the   *)
(* region unchanged.                                                       *)

\* the colours of region R in a frame, row by row
SpecRegionColors(frame, R) ==
    [i \in 1..144 |-> frame[R.y1 + ((i - 1) \div 12)][R.x1 + ((i - 1) % 12)]]

\* the previous command was a toggle of region R on session g
JustToggled(R, g) ==
    /\ last.command.cmd = "ACTION"
    /\ last.command.guid = g
    /\ last.response.status = 200
    /\ last.response.action_input.toggled
    /\ last.response.action_input.block_coords = R

C7_DoubleToggle ==
    [][\A R \in SpecRegions :
           ToggleOf(R) =>
               LET g == last'.command.guid
                   before == sessions_db[g].current_frame
                   after == sessions_db'[g].current_frame
               IN  \* each toggle reports the colours it found and leaves the
                   \* cells outside the region as they were
                   /\ last'.response.status = 200
                   /\ last'.response.action_input.old_colors
                          = SpecRegionColors(before, R)
                   /\ \A y \in Cells : \A x \in Cells :
                          ~InRegion(R, x, y) => after[y][x] = before[y][x]
                   \* the second of two toggles in succession
                   /\ JustToggled(R, g) =>
                          \A i \in 1..144 :
                              LET first == last.response.action_input.old_colors[i]
                              IN  SpecRegionColors(after, R)[i]
                                      = IF first \in {8, 9} THEN first ELSE 8]_vars

\* the first region of the all-zero grid was toggled twice in succession
C7_Witness ==
    /\ JustToggled([x1 |-> 4, y1 |-> 10, x2 |-> 15, y2 |-> 21], last.command.guid)
    /\ sessions_db[last.command.guid].game_id = "zero"
    /\ sessions_db[last.command.guid].actions_taken = 2
    /\ last.response.action_input.old_colors[1] = 9
    /\ sessions_db[last.command.guid].current_frame[10][4] = 8
    /\ sessions_db[last.command.guid].current_frame[10][3] = 0

---------------------------------------------------------------------------
(* C8: an ACTION6 whose click falls outside all 8 active regions succeeds, *)
(* returns a Frame tagged as a no-op with the session's state and score,   *)
(* and leaves the session unchanged.                                       *)

C8_OutsideClickIsNoOp ==
    [][OutsideClick =>
           /\ last'.response.status = 200
           /\ last'.response.action_input.no_op
           /\ last'.response.state = sessions_db[last'.command.guid].state
           /\ last'.response.score = sessions_db[last'.command.guid].score
           /\ StoresUnchanged]_vars

---------------------------------------------------------------------------
(* C9: a generic action (ids 1-5) on a session whose level has a final     *)
(* grid yields WIN when all 4096 cells equal the final grid, and           *)
(* score = floor(matched * 100 / 4096) with state NOT_FINISHED when        *)
(* 0 < matched < 4096.                                                     *)

SpecMatched(frame, final) ==
    Cardinality({p \in Cells \X Cells : frame[p[1]][p[2]] = final[p[1]][p[2]]})

C9_GenericScoring ==
    [][GenericAction =>
           LET g == last'.command.guid
               s == sessions_db[g]
               final == get_frame_data(s.game_id, "level_1", "final")
           IN  final # NoFrame =>
                   LET matched == SpecMatched(s.current_frame, final)
                   IN  /\ matched = 4096 =>
                              /\ sessions_db'[g].state = "WIN"
                              /\ last'.response.status = 200
                              /\ last'.response.state = "WIN"
                       /\ (0 < matched /\ matched < 4096) =>
                              /\ sessions_db'[g].score = (matched * 100) \div 4096
                              /\ sessions_db'[g].state = "NOT_FINISHED"
                              /\ last'.response.status = 200
                              /\ last'.response.score = (matched * 100) \div 4096
                              /\ last'.response.state = "NOT_FINISHED"]_vars

\* a generic action found 3808 of the 4096 cells of the puzzle's initial grid
\* equal to the final grid: score 92
C9_Witness ==
    /\ last.command.cmd = "ACTION"
    /\ last.command.action_id \in 1..5
    /\ last.response.status = 200
    /\ last.response.state = "NOT_FINISHED"
    /\ last.response.score = 92
    /\ sessions_db[last.command.guid].game_id = "puzzle"
    /\ sessions_db[last.command.guid].score = 92
    /\ sessions_db[last.command.guid].actions_taken = 1

---------------------------------------------------------------------------
(* C10: card C freshly opened, reset(G, C) on a game whose initial and     *)
(* final grids are all zero: the first action (amended: the first action   *)
(* with id 1-5) against the returned guid returns WIN and leaves           *)
(* Scorecard.won of C at 1.                                                *)

\* session g is the only play of a fresh card, of an all-zero game, untouched
C10_FirstActionOnZeroGame(g) ==
    LET s == sessions_db[g]
        card == scorecards_db[s.card_id]
    IN  /\ s.actions_taken = 0
        /\ card.played = 1 /\ card.total_actions = 0 /\ card.won = 0
        /\ get_frame_data(s.game_id, "level_1", "initial") = ZeroGrid
        /\ get_frame_data(s.game_id, "level_1", "final") = ZeroGrid
        /\ s.current_frame = ZeroGrid

C10_Wins(g) ==
    /\ last'.response.status = 200
    /\ last'.response.state = "WIN"
    /\ sessions_db'[g].state = "WIN"
    /\ scorecards_db'[sessions_db[g].card_id].won = 1

\* the claim as stated, whatever the first action is, asked only of the
\* actions that return a Frame
C10_FirstActionWins_Original ==
    [][(/\ AcceptedAction
        /\ last'.response.status = 200
        /\ C10_FirstActionOnZeroGame(last'.command.guid))
           => C10_Wins(last'.command.guid)]_vars

\* the claim as amended: the first action is one of ACTION1 .. ACTION5
C10_FirstActionWins ==
    [][(GenericAction /\ C10_FirstActionOnZeroGame(last'.command.guid))
           => C10_Wins(last'.command.guid)]_vars

\* the first action on the single play of the all-zero game has won
C10_Witness ==
    /\ last.command.cmd = "ACTION"
    /\ last.command.action_id \in 1..5
    /\ last.response.status = 200
    /\ last.response.state = "WIN"
    /\ sessions_db[last.command.guid].game_id = "zero"
    /\ sessions_db[last.command.guid].actions_taken = 1
    /\ scorecards_db[sessions_db[last.command.guid].card_id].played = 1
    /\ scorecards_db[sessions_db[last.command.guid].card_id].won = 1

---------------------------------------------------------------------------
(* C11: a reset without a guid returns an identifier that was not a key of *)
(* the Session Store before the call and leaves every existing session     *)
(* unchanged; a reset with a guid of the store returns that identifier and *)
(* reinitialises the session's level, state, score, actions_taken (to 0)   *)
(* and grid (to the level's initial grid), whatever they were before.      *)

\* the step is a reset that passes the three validation checks
AcceptedReset ==
    /\ last'.command.cmd = "RESET"
    /\ last'.command.game_id \in game_dirs
    /\ last'.command.card_id \in DOMAIN scorecards_db
    /\ last'.command.guid # NoGuid => last'.command.guid \in DOMAIN sessions_db

\* session g is as a reset of game_id leaves it: the first level, the state
\* the reset returns, no score, no action, and the initial grid of the level
\* when the Level Provider has one
SpecFreshSession(g, game_id) ==
    /\ sessions_db'[g].level = "level_1"
    /\ sessions_db'[g].state = last'.response.state
    /\ sessions_db'[g].state \in {"NOT_STARTED", "NOT_FINISHED"}
    /\ sessions_db'[g].score = 0
    /\ sessions_db'[g].actions_taken = 0
    /\ game_data[game_id] # NoData =>
           sessions_db'[g].current_frame = SpecLevelGrid(game_data[game_id].initial.grid)

C11_ResetIdentifiers ==
    [][AcceptedReset =>
           LET id == last'.response.guid
           IN  /\ last'.response.status = 200
               /\ id \in DOMAIN sessions_db'
               /\ SpecFreshSession(id, last'.command.game_id)
               /\ IF last'.command.guid = NoGuid
                  THEN /\ id \notin DOMAIN sessions_db
                       /\ \A g \in DOMAIN sessions_db :
                              sessions_db'[g] = sessions_db[g]
                  ELSE /\ id = last'.command.guid
                       /\ DOMAIN sessions_db' = DOMAIN sessions_db]_vars

\* the only session, which an action had moved, was reset under its own guid
C11_Witness ==
    /\ last.command.cmd = "RESET"
    /\ last.command.guid # NoGuid
    /\ last.response.status = 200
    /\ last.response.guid = last.command.guid
    /\ DOMAIN sessions_db = {last.command.guid}
    /\ scorecards_db[last.command.card_id].total_actions = 1
    /\ scorecards_db[last.command.card_id].played = 2
    /\ sessions_db[last.command.guid].actions_taken = 0
    /\ sessions_db[last.command.guid].score = 0

---------------------------------------------------------------------------
(* C12: every successful reset leaves the session in NOT_FINISHED and      *)
(* returns a Frame with state NOT_FINISHED; NOT_STARTED is never stored in *)
(* a session nor returned in a Frame, also for a listed game without level *)
(* data.                                                                   *)

C12_NeverNotStarted ==
    /\ \A g \in DOMAIN sessions_db : sessions_db[g].state # "NOT_STARTED"
    /\ last.response.status = 200 => last.response.state # "NOT_STARTED"
    /\ (last.command.cmd = "RESET" /\ last.response.status = 200) =>
           /\ last.response.state = "NOT_FINISHED"
           /\ sessions_db[last.response.guid].state = "NOT_FINISHED"

---------------------------------------------------------------------------
(* C13: the game_id of a session never changes after the session was      *)
(* created, not even by a reset that names its guid and another game.      *)

C13_GameIdImmutable ==
    [][\A g \in DOMAIN sessions_db :
           /\ g \in DOMAIN sessions_db'
           /\ sessions_db'[g].game_id = sessions_db[g].game_id]_vars

---------------------------------------------------------------------------
(* C14: in every reachable state, in every GameCard of every scorecard the *)
(* scores, states and actions lists have the same length, the GameCard's   *)
(* total_plays.                                                            *)

C14_ListsMatchPlays ==
    \A c \in DOMAIN scorecards_db :
        \A game_id \in DOMAIN scorecards_db[c].cards :
            LET game_card == scorecards_db[c].cards[game_id]
            IN  /\ Len(game_card.scores) = game_card.total_plays
                /\ Len(game_card.states) = game_card.total_plays
                /\ Len(game_card.actions) = game_card.total_plays

\* a GameCard holds two plays, the first of them with an action
C14_Witness ==
    \E c \in DOMAIN scorecards_db :
        \E game_id \in DOMAIN scorecards_db[c].cards :
            LET game_card == scorecards_db[c].cards[game_id]
            IN  /\ game_card.total_plays = 2
                /\ Len(game_card.scores) = 2
                /\ game_card.actions = <<1, 0>>

---------------------------------------------------------------------------
(* C15: list index i of a GameCard describes play i: an action on a        *)
(* session changes only the entries appended by that session's most recent *)
(* reset, never those of a play another guid started, even when that guid  *)
(* was reset under the same card_id and game_id after this session.        *)

\* the previous command was the reset of another guid under the card and the
\* game of the session this step acts on: the last entries are that guid's
C15_LastPlayIsAnothers ==
    /\ AcceptedAction
    /\ last.command.cmd = "RESET"
    /\ last.response.status = 200
    /\ last.response.guid # last'.command.guid
    /\ last.command.game_id = last'.command.game_id
    /\ last.command.card_id = sessions_db[last'.command.guid].card_id

C15_ActionKeepsOtherPlays ==
    [][C15_LastPlayIsAnothers =>
           LET s == sessions_db[last'.command.guid]
               before == scorecards_db[s.card_id].cards[s.game_id]
               after == scorecards_db'[s.card_id].cards[s.game_id]
               n == before.total_plays
           IN  /\ after.scores[n] = before.scores[n]
               /\ after.states[n] = before.states[n]
               /\ after.actions[n] = before.actions[n]]_vars

---------------------------------------------------------------------------
(* C16: every action that passes validation, whichever rule handles it     *)
(* (region toggle, click outside all regions, generic), adds exactly 1 to  *)
(* the session's actions_taken, to the GameCard's total_actions, to the    *)
(* last entry of the GameCard's actions list and to Scorecard.total_actions. *)

C16_EveryActionCounts ==
    [][AcceptedAction =>
           LET g == last'.command.guid
               s == sessions_db[g]
               before == scorecards_db[s.card_id]
               after == scorecards_db'[s.card_id]
               n == Len(before.cards[s.game_id].actions)
           IN  /\ sessions_db'[g].actions_taken = s.actions_taken + 1
               /\ after.total_actions = before.total_actions + 1
               /\ after.cards[s.game_id].total_actions
                      = before.cards[s.game_id].total_actions + 1
               /\ after.cards[s.game_id].actions[n]
                      = before.cards[s.game_id].actions[n] + 1]_vars

---------------------------------------------------------------------------
(* C17: close_scorecard and get_scorecard are read-only and agree: each    *)
(* returns the stored won, played, total_actions and every GameCard as     *)
(* stored, with score = 1 if won > 0 else 0, and changes no scorecard and  *)
(* no session; a scorecard closed right after it was opened gives played,  *)
(* won, total_actions and score 0 and an empty per-game map.               *)

\* the summary the specification gives for a stored scorecard
SpecSummary(scorecard) ==
    [card_id |-> scorecard.card_id,
     won |-> scorecard.won,
     played |-> scorecard.played,
     total_actions |-> scorecard.total_actions,
     score |-> IF scorecard.won > 0 THEN 1 ELSE 0,
     cards |-> scorecard.cards]

C17_ReadsAgree ==
    [][(/\ last'.command.cmd \in {"CLOSE", "GET"}
        /\ last'.command.card_id \in DOMAIN scorecards_db) =>
           /\ last'.response.status = 200
           /\ last'.response.summary = SpecSummary(scorecards_db[last'.command.card_id])
           /\ StoresUnchanged
           /\ (last.command.cmd = "OPEN"
                   /\ last.response.card_id = last'.command.card_id) =>
                  /\ last'.response.summary.played = 0
                  /\ last'.response.summary.won = 0
                  /\ last'.response.summary.total_actions = 0
                  /\ last'.response.summary.score = 0
                  /\ last'.response.summary.cards = <<>>]_vars

\* a scorecard with a won play was read by get_scorecard
C17_Witness ==
    /\ last.command.cmd = "GET"
    /\ last.response.status = 200
    /\ last.response.summary.won = 1
    /\ last.response.summary.played = 1
    /\ last.response.summary.score = 1
    /\ last.response.summary.total_actions = 2
    /\ DOMAIN last.response.summary.cards # {}

---------------------------------------------------------------------------
(* C18: get_scorecard(card_id, game_id) fails with NotFound when card_id   *)
(* exists but game_id was never reset under it; otherwise it returns won = *)
(* the number of WIN entries of that GameCard's states list, played = its  *)
(* total_plays, total_actions = its total_actions, score = 1 if won > 0    *)
(* else 0, and a per-game map that holds only that game.                   *)

C18_GameSummary ==
    [][(/\ last'.command.cmd = "GETGAME"
        /\ last'.command.card_id \in DOMAIN scorecards_db) =>
           LET scorecard == scorecards_db[last'.command.card_id]
               game_id == last'.command.game_id
               summary == last'.response.summary
           IN  /\ StoresUnchanged
               /\ IF game_id \notin DOMAIN scorecard.cards
                  THEN last'.response.status = 404
                  ELSE LET game_card == scorecard.cards[game_id]
                           wins == Cardinality({i \in DOMAIN game_card.states :
                                                   game_card.states[i] = "WIN"})
                       IN  /\ last'.response.status = 200
                           /\ summary.won = wins
                           /\ summary.played = game_card.total_plays
                           /\ summary.total_actions = game_card.total_actions
                           /\ summary.score = (IF wins > 0 THEN 1 ELSE 0)
                           /\ DOMAIN summary.cards = {game_id}
                           /\ summary.cards[game_id] = game_card]_vars

\* the summary of a game counts one WIN entry where the scorecard counts two wins
C18_Witness ==
    /\ last.command.cmd = "GETGAME"
    /\ last.response.status = 200
    /\ last.response.summary.won = 1
    /\ last.response.summary.played = 1
    /\ scorecards_db[last.command.card_id].won = 2

---------------------------------------------------------------------------
(* C19: the reasoning payload of an action is never consulted: two action  *)
(* commands (ids 1-6) that differ only in it leave the same session grid,  *)
(* state, score, actions_taken and scorecards, select the same rule and    *)
(* toggle the same region, also when the payload of an ACTION6 has keys    *)
(* named x or y.                                                           *)

\* the step is an action on a session of the store, under its game_id
C19_Action == AcceptedAction /\ last'.command.request # NoData

\* what the same command leaves without a reasoning payload
C19_Plain ==
    LET c == last'.command
    IN  IF c.action_id = 6
        THEN action6(c.game_id, c.guid, c.request.x, c.request.y, NoData)
        ELSE simple_action(c.action_id, c.game_id, c.guid, NoData)

\* asked of ACTION1..5 and of the ACTION6 whose click is inside a region
C19_ReasoningNotConsulted ==
    [][C19_Action =>
           /\ last'.command.action_id \in 1..5 =>
                  /\ sessions_db' = C19_Plain.sessions
                  /\ scorecards_db' = C19_Plain.scorecards
           /\ last'.command.action_id = 6 =>
                  \A R \in SpecRegions :
                      InRegion(R, last'.command.request.x, last'.command.request.y) =>
                          /\ last'.response.status = 200
                          /\ last'.response.action_input.toggled
                          /\ last'.response.action_input.block_coords = R
                          /\ sessions_db' = C19_Plain.sessions
                          /\ scorecards_db' = C19_Plain.scorecards]_vars

---------------------------------------------------------------------------
(* C21: after every successful action on a session that owns the last play *)
(* of its GameCard, the last entry of the GameCard's scores list is the    *)
(* session's new score (the score of the Frame) and the last entry of its  *)
(* states list is the session's new state, also when the action wins under *)
(* the generic rule.                                                       *)

\* asked of the sessions whose GameCard has a single play, which is theirs
C21_LastEntriesFollowSession ==
    [][(/\ AcceptedAction
        /\ last'.response.status = 200
        /\ LET s == sessions_db[last'.command.guid]
           IN  scorecards_db[s.card_id].cards[s.game_id].total_plays = 1) =>
           LET g == last'.command.guid
               s == sessions_db[g]
               game_card == scorecards_db'[s.card_id].cards[s.game_id]
           IN  /\ game_card.scores[Len(game_card.scores)] = sessions_db'[g].score
               /\ game_card.scores[Len(game_card.scores)] = last'.response.score
               /\ game_card.states[Len(game_card.states)] = sessions_db'[g].state]_vars

---------------------------------------------------------------------------
(* C22: when the level has no final grid, every generic-rule action adds   *)
(* exactly 1 to the session's score and leaves its state NOT_FINISHED, so  *)
(* that n such actions after a reset give score n; none produces WIN or    *)
(* adds to Scorecard.won.                                                  *)

\* the Level Provider has no final grid for the first level of the game
SpecNoFinalGrid(game_id) ==
    \/ game_data[game_id] = NoData
    \/ game_data[game_id].final = NoData

C22_FallbackScoring ==
    [][(GenericAction /\ SpecNoFinalGrid(last'.command.game_id)) =>
           LET g == last'.command.guid
               s == sessions_db[g]
           IN  /\ sessions_db'[g].score = s.score + 1
               /\ sessions_db'[g].state = "NOT_FINISHED"
               /\ s.score = s.actions_taken
                      => sessions_db'[g].score = sessions_db'[g].actions_taken
               /\ scorecards_db'[s.card_id].won = scorecards_db[s.card_id].won
               /\ last'.response.status = 200 => last'.response.state = "NOT_FINISHED"]_vars

\* three generic actions on the game with an initial grid and no final grid
C22_Witness ==
    /\ last.command.cmd = "ACTION"
    /\ last.command.action_id \in 1..5
    /\ last.command.game_id = "short"
    /\ last.response.status = 200
    /\ last.response.score = 3
    /\ sessions_db[last.command.guid].score = 3
    /\ sessions_db[last.command.guid].actions_taken = 3
    /\ sessions_db[last.command.guid].state = "NOT_FINISHED"
    /\ scorecards_db[sessions_db[last.command.guid].card_id].won = 0

---------------------------------------------------------------------------
(* C23: a successful reset(game_id, card_id) creates the GameCard of the   *)
(* game if absent, appends exactly one entry to each of its three lists    *)
(* (initial score, initial state, action count 0), adds 1 to its           *)
(* total_plays and to Scorecard.played, and leaves Scorecard.won,          *)
(* total_actions and score, the entries already in the lists, every other  *)
(* GameCard and every other scorecard unchanged.                           *)

\* a GameCard before its first play
SpecEmptyGameCard(game_id) ==
    [game_id |-> game_id, total_plays |-> 0, total_actions |-> 0,
     scores |-> <<>>, states |-> <<>>, actions |-> <<>>]

C23_ResetBookkeeping ==
    [][AcceptedReset =>
           LET card_id == last'.command.card_id
               game_id == last'.command.game_id
               before == scorecards_db[card_id]
               after == scorecards_db'[card_id]
               old == IF game_id \in DOMAIN before.cards
                      THEN before.cards[game_id] ELSE SpecEmptyGameCard(game_id)
           IN  /\ DOMAIN after.cards = DOMAIN before.cards \cup {game_id}
               /\ after.cards[game_id] =
                      [old EXCEPT !.total_plays = @ + 1,
                                  !.scores = Append(@, last'.response.score),
                                  !.states = Append(@, last'.response.state),
                                  !.actions = Append(@, 0)]
               /\ after.played = before.played + 1
               /\ after.won = before.won
               /\ after.total_actions = before.total_actions
               /\ after.score = before.score
               /\ \A other \in DOMAIN before.cards \ {game_id} :
                      after.cards[other] = before.cards[other]
               /\ DOMAIN scorecards_db' = DOMAIN scorecards_db
               /\ \A c \in DOMAIN scorecards_db \ {card_id} :
                      scorecards_db'[c] = scorecards_db[c]]_vars

\* a reset added the second play of a game to a card that has a win, while
\* another scorecard exists
C23_Witness ==
    /\ last.command.cmd = "RESET"
    /\ last.response.status = 200
    /\ Cardinality(DOMAIN scorecards_db) = 2
    /\ scorecards_db[last.command.card_id].played = 2
    /\ scorecards_db[last.command.card_id].won = 1
    /\ scorecards_db[last.command.card_id].cards[last.command.game_id].total_plays = 2
    /\ scorecards_db[last.command.card_id].cards[last.command.game_id].actions = <<1, 0>>

---------------------------------------------------------------------------
(* C24: in every reachable state every session's card_id is the key of a   *)
(* scorecard that has a GameCard for the session's game_id with at least   *)
(* one play entry; scorecards and sessions are never removed, so an action *)
(* that passes validation finds the GameCard entry it updates.             *)

C24_SessionHasItsGameCard(g) ==
    /\ sessions_db'[g].card_id \in DOMAIN scorecards_db'
    /\ sessions_db'[g].game_id \in DOMAIN scorecards_db'[sessions_db'[g].card_id].cards
    /\ LET game_card ==
               scorecards_db'[sessions_db'[g].card_id].cards[sessions_db'[g].game_id]
       IN  /\ game_card.total_plays >= 1
           /\ Len(game_card.scores) >= 1
           /\ Len(game_card.states) >= 1
           /\ Len(game_card.actions) >= 1

C24_NothingDangles ==
    [][/\ \A g \in DOMAIN sessions_db' : C24_SessionHasItsGameCard(g)
       /\ DOMAIN sessions_db \subseteq DOMAIN sessions_db'
       /\ DOMAIN scorecards_db \subseteq DOMAIN scorecards_db'
       /\ \A c \in DOMAIN scorecards_db :
              DOMAIN scorecards_db[c].cards \subseteq DOMAIN scorecards_db'[c].cards]_vars

\* two sessions under two different scorecards, one of them acted on
C24_Witness ==
    /\ Cardinality(DOMAIN sessions_db) = 2
    /\ \E g1 \in DOMAIN sessions_db, g2 \in DOMAIN sessions_db :
           /\ sessions_db[g1].card_id # sessions_db[g2].card_id
           /\ sessions_db[g1].actions_taken = 1
           /\ scorecards_db[sessions_db[g1].card_id].total_actions = 1
           /\ scorecards_db[sessions_db[g2].card_id].total_actions = 0

---------------------------------------------------------------------------
(* C25: in every reachable state every session's current grid has exactly  *)
(* 64 rows of exactly 64 cells, every cell in 0..15, whatever shape the    *)
(* stored level grid has: a narrower or shorter stored grid is padded with *)
(* color 0 and a level without a stored initial grid gets a generated      *)
(* 64x64 grid.                                                             *)

SpecColors == 0..15

C25_GridShape ==
    \A g \in DOMAIN sessions_db :
        LET grid == sessions_db[g].current_frame
        IN  /\ DOMAIN grid = Cells
            /\ \A y \in Cells :
                   /\ DOMAIN grid[y] = Cells
                   /\ \A x \in Cells : grid[y][x] \in SpecColors

\* an accepted action on a session of the game stored as two short rows:
\* the stored cells are there and the padding is color 0
C25_Witness ==
    /\ last.command.cmd = "ACTION"
    /\ last.response.status = 200
    /\ last.command.game_id = "short"
    /\ LET grid == sessions_db[last.command.guid].current_frame
       IN  /\ grid[0][0] = 9 /\ grid[0][2] = 15 /\ grid[0][3] = 0
           /\ grid[1][0] = 9 /\ grid[1][1] = 0
           /\ grid[2][0] = 0 /\ grid[N - 1][N - 1] = 0

---------------------------------------------------------------------------
(* C26: in every reachable state, for every scorecard, total_actions is    *)
(* the sum of its GameCards' total_actions and played is the sum of its    *)
(* GameCards' total_plays; for every GameCard, total_actions is the sum of *)
(* the entries of its actions list.                                        *)

RECURSIVE SpecSumOfList(_)
SpecSumOfList(list) ==
    IF list = <<>> THEN 0 ELSE Head(list) + SpecSumOfList(Tail(list))

RECURSIVE SpecSumOverCards(_, _, _)
SpecSumOverCards(cards, games, field) ==
    IF games = {} THEN 0
    ELSE LET game == CHOOSE one \in games : TRUE
         IN  cards[game][field] + SpecSumOverCards(cards, games \ {game}, field)

C26_AggregatesAgree ==
    \A c \in DOMAIN scorecards_db :
        LET cards == scorecards_db[c].cards
        IN  /\ scorecards_db[c].total_actions =
                   SpecSumOverCards(cards, DOMAIN cards, "total_actions")
            /\ scorecards_db[c].played =
                   SpecSumOverCards(cards, DOMAIN cards, "total_plays")
            /\ \A game \in DOMAIN cards :
                   cards[game].total_actions = SpecSumOfList(cards[game].actions)

\* a scorecard with two GameCards, one play each, and one action counted
\* on one of them
C26_Witness ==
    \E c \in DOMAIN scorecards_db :
        /\ Cardinality(DOMAIN scorecards_db[c].cards) = 2
        /\ scorecards_db[c].played = 2
        /\ scorecards_db[c].total_actions = 1
        /\ \E game \in DOMAIN scorecards_db[c].cards :
               scorecards_db[c].cards[game].actions = <<1>>

---------------------------------------------------------------------------
(* C27: in every reachable state, for every scorecard, won <= played: a    *)
(* play adds at most 1 to Scorecard.won, however many actions are issued   *)
(* against its session after it has reached WIN.                           *)

C27_WonAtMostPlayed ==
    \A c \in DOMAIN scorecards_db : scorecards_db[c].won <= scorecards_db[c].played

---------------------------------------------------------------------------
(* C28: after every generic-rule action the session's grid is a level      *)
(* grid: the level's final grid if the resulting state is WIN, the level's *)
(* initial grid otherwise (the generated grid where the level stores       *)
(* none), so the toggles made before a non-winning generic action are      *)
(* discarded; and a step that leaves a session with a changed grid that is *)
(* neither level grid is a region toggle on that session.                  *)

SpecGeneratedGrid == [y \in Cells |-> [x \in Cells |-> (x + y) % 16]]

SpecLevelFrame(game_id, frame_type) ==
    IF game_data[game_id] = NoData \/ game_data[game_id][frame_type] = NoData
    THEN SpecGeneratedGrid
    ELSE SpecLevelGrid(game_data[game_id][frame_type].grid)

C28_GenericReplacesGrid ==
    LET g == last'.command.guid
    IN  sessions_db'[g].current_frame =
            SpecLevelFrame(sessions_db'[g].game_id,
                           IF sessions_db'[g].state = "WIN" THEN "final" ELSE "initial")

C28_OffLevelGrid(g) ==
    /\ g \in DOMAIN sessions_db
    /\ sessions_db'[g].current_frame # sessions_db[g].current_frame
    /\ sessions_db'[g].current_frame # SpecLevelFrame(sessions_db'[g].game_id, "initial")
    /\ sessions_db'[g].current_frame # SpecLevelFrame(sessions_db'[g].game_id, "final")

C28_OnlyTogglesLeaveLevelGrids ==
    [][/\ GenericAction => C28_GenericReplacesGrid
       /\ \A g \in DOMAIN sessions_db' :
              C28_OffLevelGrid(g) =>
                  /\ last'.command.guid = g
                  /\ \E R \in SpecRegions : ToggleOf(R)]_vars

\* a generic action that did not win, on a session whose grid a toggle had
\* changed: the grid is the level's initial grid again
C28_Witness ==
    /\ last.command.cmd = "ACTION"
    /\ last.command.action_id \in 1..5
    /\ last.command.game_id = "puzzle"
    /\ last.response.status = 200
    /\ sessions_db[last.command.guid].actions_taken = 2
    /\ sessions_db[last.command.guid].state = "NOT_FINISHED"
    /\ sessions_db[last.command.guid].score = 96
    /\ sessions_db[last.command.guid].current_frame = PuzzleInitialGrid

=============================================================================
